---- MODULE Spec2Model ----
(***************************************************************************)
(* Model of the AAS validation service (packages/validation-service):     *)
(* AasValidator (validators/aas_validator.py), SchemaValidator            *)
(* (validators/schema_validator.py) and the diagnostic model (models.py). *)
(*                                                                         *)
(* JSON values are tagged records: [t |-> "null"], [t |-> "str", v |-> s], *)
(* [t |-> "num", v |-> n], [t |-> "list", v |-> <<items>>] and             *)
(* [t |-> "dict", v |-> << <<key, value>>, ... >>] (insertion ordered, as   *)
(* a Python dict is).  Python exceptions are threaded through the          *)
(* operators as a field exc: "" is "no exception", otherwise the name of   *)
(* the exception class that is propagating.                                *)
(***************************************************************************)
EXTENDS Integers, Sequences, FiniteSets, TLC

VARIABLES pc, call, outcome, requests, _aas_test_engines_status, version_queries

vars == <<pc, call, outcome, requests, _aas_test_engines_status, version_queries>>

\* the state of one validator call
callVars == <<pc, call, outcome>>

\* the state of the service process
processVars == <<requests, _aas_test_engines_status, version_queries>>

-----------------------------------------------------------------------------
(* JSON values and the Python operations the validators apply to them *)

JNull == [t |-> "null"]

JStr(s) == [t |-> "str", v |-> s]

JNum(n) == [t |-> "num", v |-> n]

JList(items) == [t |-> "list", v |-> items]

JDict(pairs) == [t |-> "dict", v |-> pairs]

NoExc == ""

IsDict(x) == x.t = "dict"

IsList(x) == x.t = "list"

IsStr(x) == x.t = "str"

\* bool(x): None, "", 0, [] and {} are falsy
Truthy(x) ==
    CASE x.t = "null" -> FALSE
      [] x.t = "str"  -> x.v # ""
      [] x.t = "num"  -> x.v # 0
      [] OTHER        -> Len(x.v) > 0

\* hash(x) succeeds: lists and dicts are unhashable
Hashable(x) == x.t \notin {"list", "dict"}

\* the positions of key k in dict d (at most one: keys are unique)
KeyPos(d, k) == {i \in 1..Len(d.v) : d.v[i][1] = k}

HasKey(d, k) == KeyPos(d, k) # {}

\* d[k] for a key that is present
Item(d, k) == d.v[CHOOSE i \in KeyPos(d, k) : TRUE][2]

\* d.get(k, default)
GetD(d, k, default) == IF HasKey(d, k) THEN Item(d, k) ELSE default

\* d.get(k)
Get(d, k) == GetD(d, k, JNull)

\* k in s for two strings: substring test
SubstringOf(k, s) ==
    \E i \in 1..(Len(s) - Len(k) + 1) : SubSeq(s, i, i + Len(k) - 1) = k

\* s.startswith(p)
StartsWith(s, p) == Len(s) >= Len(p) /\ SubSeq(s, 1, Len(p)) = p

\* the expression `k in x` for a string k: "T", "F", or "E" (TypeError)
PyIn(k, x) ==
    CASE x.t = "dict" -> IF HasKey(x, k) THEN "T" ELSE "F"
      [] x.t = "list" -> IF \E i \in 1..Len(x.v) : x.v[i] = JStr(k) THEN "T" ELSE "F"
      [] x.t = "str"  -> IF SubstringOf(k, x.v) THEN "T" ELSE "F"
      [] OTHER        -> "E"

\* iter(x) succeeds for lists, dicts and strings
Iterable(x) == x.t \in {"list", "dict", "str"}

\* list(x): a list's items, a dict's keys, a string's characters
IterItems(x) ==
    CASE x.t = "list" -> x.v
      [] x.t = "dict" -> [i \in 1..Len(x.v) |-> JStr(x.v[i][1])]
      [] x.t = "str"  -> [i \in 1..Len(x.v) |-> JStr(SubSeq(x.v, i, i))]
      [] OTHER        -> <<>>

\* str(x) as an f-string renders it; containers are rendered by their
\* brackets only, their contents are not modelled
PyStr(x) ==
    CASE x.t = "null" -> "None"
      [] x.t = "str"  -> x.v
      [] x.t = "num"  -> ToString(x.v)
      [] x.t = "list" -> "[...]"
      [] OTHER        -> "{...}"

-----------------------------------------------------------------------------
(* models.py *)

\* ValidationError(path, message, severity, rule)
ValidationError(path, message, severity, rule) ==
    [path |-> path, message |-> message, severity |-> severity, rule |-> rule]

\* the errors/warnings/info lists of one call and the propagating exception
EmptyBuckets == [errors |-> <<>>, warnings |-> <<>>, info |-> <<>>, exc |-> NoExc]

AddError(b, d) == [b EXCEPT !.errors = Append(@, d)]

AddWarning(b, d) == [b EXCEPT !.warnings = Append(@, d)]

AddInfo(b, d) == [b EXCEPT !.info = Append(@, d)]

Raise(b, e) == [b EXCEPT !.exc = e]

\* ValidationResult(valid, errors, warnings, info, test_suite, duration_ms);
\* duration_ms is "0" (the literal 0) or "elapsed" (a measured wall-clock time)
ValidationResult(valid, errors, warnings, info, test_suite, duration_ms) ==
    [valid |-> valid, errors |-> errors, warnings |-> warnings, info |-> info,
     test_suite |-> test_suite, duration_ms |-> duration_ms]

-----------------------------------------------------------------------------
(* aas_validator.py: the walkers *)

\* _validate_structure that tests the same key twice
_validate_structure_one_key(environment, b) ==
    IF PyIn("assetAdministrationShells", environment) = "E"
    THEN Raise(b, "TypeError")
    ELSE
      LET b1 == IF PyIn("assetAdministrationShells", environment) = "F"
                THEN AddWarning(b, ValidationError("/",
                         "Missing assetAdministrationShells array",
                         "warning", "schema.structure"))
                ELSE b
      IN  IF PyIn("assetAdministrationShells", environment) = "F"
          THEN AddWarning(b1, ValidationError("/", "Missing submodels array",
                                              "warning", "schema.structure"))
          ELSE b1

\* AasValidator._validate_structure
_validate_structure(environment, b) ==
    IF PyIn("assetAdministrationShells", environment) = "E"
    THEN Raise(b, "TypeError")
    ELSE
      LET b1 == IF PyIn("assetAdministrationShells", environment) = "F"
                THEN AddWarning(b, ValidationError("/",
                         "Missing assetAdministrationShells array",
                         "warning", "schema.structure"))
                ELSE b
      IN  IF PyIn("submodels", environment) = "F"
          THEN AddWarning(b1, ValidationError("/", "Missing submodels array",
                                              "warning", "schema.structure"))
          ELSE b1

\* _extract_reference_id that takes the first key of the reference
_extract_reference_id_first_key(reference) ==
    IF ~Truthy(reference) THEN JNull
    ELSE IF IsDict(reference)
    THEN LET keys == GetD(reference, "keys", JList(<<>>))
         IN  IF Truthy(keys) /\ IsList(keys) /\ Len(keys.v) > 0
             THEN LET last_key == keys.v[1]
                  IN  IF IsDict(last_key) THEN Get(last_key, "value") ELSE JNull
             ELSE JNull
    ELSE JNull

\* AasValidator._extract_reference_id: the target ID of a reference, JNull
\* (None) when there is none
_extract_reference_id(reference) ==
    IF ~Truthy(reference) THEN JNull
    ELSE IF IsDict(reference)
    THEN LET keys == GetD(reference, "keys", JList(<<>>))
         IN  IF Truthy(keys) /\ IsList(keys) /\ Len(keys.v) > 0
             THEN LET last_key == keys.v[Len(keys.v)]
                  IN  IF IsDict(last_key) THEN Get(last_key, "value") ELSE JNull
             ELSE JNull
    ELSE JNull

\* one pass of a `for x in environment.get(key, []): if "id" in x:
\* valid_ids.add(x["id"])` loop, from item k on; acc is [ids, exc]
RECURSIVE CollectIdsFrom(_, _, _)
CollectIdsFrom(items, k, acc) ==
    IF k > Len(items) \/ acc.exc # NoExc THEN acc
    ELSE LET x == items[k]
             has == PyIn("id", x)
         IN  IF has = "E" THEN [acc EXCEPT !.exc = "TypeError"]
             ELSE IF has = "F" THEN CollectIdsFrom(items, k + 1, acc)
             ELSE IF ~IsDict(x) THEN [acc EXCEPT !.exc = "TypeError"]
             ELSE IF ~Hashable(Item(x, "id")) THEN [acc EXCEPT !.exc = "TypeError"]
             ELSE CollectIdsFrom(items, k + 1,
                                 [acc EXCEPT !.ids = @ \cup {Item(x, "id")}])

\* the IDs of one top-level sequence added to acc
CollectIds(environment, key, acc) ==
    IF acc.exc # NoExc THEN acc
    ELSE LET seq == GetD(environment, key, JList(<<>>))
         IN  IF ~Iterable(seq) THEN [acc EXCEPT !.exc = "TypeError"]
             ELSE CollectIdsFrom(IterItems(seq), 1, acc)

\* the identifier index of AasValidator._validate_references (lines 210-226)
valid_ids(environment) ==
    IF ~IsDict(environment) THEN [ids |-> {}, exc |-> "AttributeError"]
    ELSE CollectIds(environment, "conceptDescriptions",
           CollectIds(environment, "submodels",
             CollectIds(environment, "assetAdministrationShells",
                        [ids |-> {}, exc |-> NoExc])))

\* Dangling with the membership test inverted
DanglingInverted(ref_id, ids) ==
    IF ~Truthy(ref_id) THEN "F"
    ELSE IF ~Hashable(ref_id) THEN "E"
    ELSE IF ref_id \in ids THEN "T" ELSE "F"

\* the test `ref_id and ref_id not in valid_ids`: "T", "F" or "E" (TypeError
\* of hashing an unhashable ref_id)
Dangling(ref_id, ids) ==
    IF ~Truthy(ref_id) THEN "F"
    ELSE IF ~Hashable(ref_id) THEN "E"
    ELSE IF ref_id \notin ids THEN "T" ELSE "F"

\* the inner loop of _check_references_in_aas over aas["submodels"], from j on
RECURSIVE CheckSubmodelRefsFrom(_, _, _, _, _)
CheckSubmodelRefsFrom(refs, j, i, ids, b) ==
    IF j > Len(refs) \/ b.exc # NoExc THEN b
    ELSE LET ref_id == _extract_reference_id(refs[j])
             d == Dangling(ref_id, ids)
         IN  IF d = "E" THEN Raise(b, "TypeError")
             ELSE CheckSubmodelRefsFrom(refs, j + 1, i, ids,
                    IF d = "T"
                    THEN AddError(b, ValidationError(
                           "/assetAdministrationShells/" \o ToString(i - 1)
                               \o "/submodels/" \o ToString(j - 1),
                           "Submodel reference points to non-existent element: "
                               \o PyStr(ref_id),
                           "error", "references.broken"))
                    ELSE b)

\* the derivedFrom check of one shell (lines 254-265)
CheckDerivedFrom(aas, i, ids, b) ==
    IF b.exc # NoExc \/ ~HasKey(aas, "derivedFrom") THEN b
    ELSE LET ref_id == _extract_reference_id(Item(aas, "derivedFrom"))
             d == Dangling(ref_id, ids)
         IN  IF d = "E" THEN Raise(b, "TypeError")
             ELSE IF d = "T"
             THEN AddWarning(b, ValidationError(
                    "/assetAdministrationShells/" \o ToString(i - 1) \o "/derivedFrom",
                    "derivedFrom reference points to non-existent AAS: " \o PyStr(ref_id),
                    "warning", "references.external"))
             ELSE b

\* the outer loop of _check_references_in_aas, from shell i on
RECURSIVE CheckShellsFrom(_, _, _, _)
CheckShellsFrom(shells, i, ids, b) ==
    IF i > Len(shells) \/ b.exc # NoExc THEN b
    ELSE LET aas == shells[i]
         IN  IF ~IsDict(aas) THEN Raise(b, "AttributeError")
             ELSE LET refs == GetD(aas, "submodels", JList(<<>>))
                  IN  IF ~Iterable(refs) THEN Raise(b, "TypeError")
                      ELSE CheckShellsFrom(shells, i + 1, ids,
                             CheckDerivedFrom(aas, i, ids,
                               CheckSubmodelRefsFrom(IterItems(refs), 1, i, ids, b)))

\* AasValidator._check_references_in_aas
_check_references_in_aas(environment, ids, b) ==
    IF b.exc # NoExc THEN b
    ELSE IF ~IsDict(environment) THEN Raise(b, "AttributeError")
    ELSE LET shells == GetD(environment, "assetAdministrationShells", JList(<<>>))
         IN  IF ~Iterable(shells) THEN Raise(b, "TypeError")
             ELSE CheckShellsFrom(IterItems(shells), 1, ids, b)

\* CheckElementRef that reports a dangling target as an error
CheckElementRefAsError(reference, path, what, ids, b) ==
    IF b.exc # NoExc \/ ~Truthy(reference) THEN b
    ELSE LET ref_id == _extract_reference_id(reference)
             d == Dangling(ref_id, ids)
         IN  IF d = "E" THEN Raise(b, "TypeError")
             ELSE IF d = "T"
             THEN AddError(b, ValidationError(path,
                    what \o " unknown element: " \o PyStr(ref_id),
                    "error", "references.unknown"))
             ELSE b

\* one reference check of an element (lines 300-311, 317-328, 329-340):
\* reference is elem.get(field); a dangling target adds a warning at path
CheckElementRef(reference, path, what, ids, b) ==
    IF b.exc # NoExc \/ ~Truthy(reference) THEN b
    ELSE LET ref_id == _extract_reference_id(reference)
             d == Dangling(ref_id, ids)
         IN  IF d = "E" THEN Raise(b, "TypeError")
             ELSE IF d = "T"
             THEN AddWarning(b, ValidationError(path,
                    what \o " unknown element: " \o PyStr(ref_id),
                    "warning", "references.unknown"))
             ELSE b

\* CheckElementKind that checks the value of an element of any kind
CheckElementKindAnyKind(elem, elem_path, ids, b) ==
    CheckElementRef(Get(elem, "value"), elem_path, "ReferenceElement points to", ids, b)

\* the reference checks of one element by its modelType (lines 297-347)
CheckElementKind(elem, elem_path, ids, b) ==
    LET model_type == Get(elem, "modelType")
    IN  IF model_type = JStr("ReferenceElement")
        THEN CheckElementRef(Get(elem, "value"), elem_path,
                             "ReferenceElement points to", ids, b)
        ELSE IF model_type = JStr("RelationshipElement")
        THEN CheckElementRef(Get(elem, "second"), elem_path \o "/second",
                             "RelationshipElement.second points to", ids,
               CheckElementRef(Get(elem, "first"), elem_path \o "/first",
                               "RelationshipElement.first points to", ids, b))
        ELSE b

\* AasValidator._check_submodel_elements, from element k of elements on
RECURSIVE CheckElementsFrom(_, _, _, _, _)
CheckElementsFrom(elements, k, base_path, ids, b) ==
    IF k > Len(elements) \/ b.exc # NoExc THEN b
    ELSE LET elem == elements[k]
             elem_path == base_path \o "/" \o ToString(k - 1)
         IN  IF ~IsDict(elem) THEN Raise(b, "AttributeError")
             ELSE LET model_type == Get(elem, "modelType")
                      b1 == CheckElementKind(elem, elem_path, ids, b)
                      nested == GetD(elem, "value", JList(<<>>))
                      b2 == IF /\ b1.exc = NoExc
                               /\ model_type \in {JStr("SubmodelElementCollection"),
                                                  JStr("SubmodelElementList")}
                               /\ IsList(nested)
                            THEN CheckElementsFrom(nested.v, 1, elem_path \o "/value",
                                                   ids, b1)
                            ELSE b1
                  IN  CheckElementsFrom(elements, k + 1, base_path, ids, b2)

\* AasValidator._check_submodel_elements
_check_submodel_elements(elements, base_path, ids, b) ==
    IF b.exc # NoExc THEN b
    ELSE IF ~Iterable(elements) THEN Raise(b, "TypeError")
    ELSE CheckElementsFrom(IterItems(elements), 1, base_path, ids, b)

\* the loop of _check_references_in_submodels, from submodel i on
RECURSIVE CheckSubmodelsFrom(_, _, _, _)
CheckSubmodelsFrom(submodels, i, ids, b) ==
    IF i > Len(submodels) \/ b.exc # NoExc THEN b
    ELSE LET sm == submodels[i]
         IN  IF ~IsDict(sm) THEN Raise(b, "AttributeError")
             ELSE CheckSubmodelsFrom(submodels, i + 1, ids,
                    _check_submodel_elements(
                        GetD(sm, "submodelElements", JList(<<>>)),
                        "/submodels/" \o ToString(i - 1) \o "/submodelElements",
                        ids, b))

\* AasValidator._check_references_in_submodels
_check_references_in_submodels(environment, ids, b) ==
    IF b.exc # NoExc THEN b
    ELSE IF ~IsDict(environment) THEN Raise(b, "AttributeError")
    ELSE LET submodels == GetD(environment, "submodels", JList(<<>>))
         IN  IF ~Iterable(submodels) THEN Raise(b, "TypeError")
             ELSE CheckSubmodelsFrom(IterItems(submodels), 1, ids, b)

\* AasValidator._validate_references
_validate_references(environment, b) ==
    IF b.exc # NoExc THEN b
    ELSE LET index == valid_ids(environment)
         IN  IF index.exc # NoExc THEN Raise(b, index.exc)
             ELSE _check_references_in_submodels(environment, index.ids,
                    _check_references_in_aas(environment, index.ids, b))

\* SemanticWarning with the 1-based position in the path
SemanticWarningOffByOne(i) ==
    ValidationError("/submodels/" \o ToString(i), "Submodel missing semanticId",
                    "warning", "semantics.semantic_id")

\* the warning of _validate_semantics for the submodel at (1-based) position i
SemanticWarning(i) ==
    ValidationError("/submodels/" \o ToString(i - 1), "Submodel missing semanticId",
                    "warning", "semantics.semantic_id")

\* SemanticsFrom that warns about every submodel, semanticId or not
SemanticsFromUnconditional(submodels, i, b) ==
    [b EXCEPT !.warnings = @ \o [k \in 1..Len(submodels) |-> SemanticWarning(k)]]

\* the loop of _validate_semantics, from submodel i on
RECURSIVE SemanticsFrom(_, _, _)
SemanticsFrom(submodels, i, b) ==
    IF i > Len(submodels) \/ b.exc # NoExc THEN b
    ELSE LET has == PyIn("semanticId", submodels[i])
         IN  IF has = "E" THEN Raise(b, "TypeError")
             ELSE SemanticsFrom(submodels, i + 1,
                    IF has = "F" THEN AddWarning(b, SemanticWarning(i)) ELSE b)

\* AasValidator._validate_semantics
_validate_semantics(environment, b) ==
    IF b.exc # NoExc THEN b
    ELSE IF ~IsDict(environment) THEN Raise(b, "AttributeError")
    ELSE LET submodels == GetD(environment, "submodels", JList(<<>>))
         IN  IF ~Iterable(submodels) THEN Raise(b, "TypeError")
             ELSE SemanticsFrom(IterItems(submodels), 1, b)

-----------------------------------------------------------------------------
(* aas_validator.py: the external result normalizer.  A checker result is  *)
(* [ok, _issues, issues, dump]: ok is "true", "false" or "raise" (ok()     *)
(* raises); the other three are attributes [st, val] with st "absent" (no  *)
(* such attribute), "raises" (reading it raises) or "value" (val is read). *)

\* rule=None of a ValidationError (rule: str | None)
NoRule == "<None>"

\* the characters of a message the dump fallback keeps: dump_output[:500]
DumpLimit == 500

\* _add_issue that routes everything but severity "error" to the warnings
_add_issue_fail_open(path, issue, b) ==
    IF b.exc # NoExc THEN b
    ELSE LET message  == IF IsDict(issue)
                         THEN GetD(issue, "message", JStr(PyStr(issue)))
                         ELSE JStr(PyStr(issue))
             severity == IF IsDict(issue) THEN GetD(issue, "severity", JStr("error"))
                         ELSE JStr("error")
             rule     == IF IsDict(issue)
                         THEN GetD(issue, "rule", JStr("aas-test-engines"))
                         ELSE JStr("aas-test-engines")
         IN  IF ~IsStr(message) \/ ~IsStr(severity) \/ rule.t \notin {"str", "null"}
             THEN Raise(b, "ValidationError")
             ELSE LET error == ValidationError(
                                 IF StartsWith(path, "/") THEN path ELSE "/" \o path,
                                 message.v, severity.v,
                                 IF IsStr(rule) THEN rule.v ELSE NoRule)
                  IN  IF severity.v # "error" THEN AddWarning(b, error)
                      ELSE AddError(b, error)

\* AasValidator._add_issue; pydantic rejects a message, severity or rule
\* that is not a string (rule may be None)
_add_issue(path, issue, b) ==
    IF b.exc # NoExc THEN b
    ELSE LET message  == IF IsDict(issue)
                         THEN GetD(issue, "message", JStr(PyStr(issue)))
                         ELSE JStr(PyStr(issue))
             severity == IF IsDict(issue) THEN GetD(issue, "severity", JStr("error"))
                         ELSE JStr("error")
             rule     == IF IsDict(issue)
                         THEN GetD(issue, "rule", JStr("aas-test-engines"))
                         ELSE JStr("aas-test-engines")
         IN  IF ~IsStr(message) \/ ~IsStr(severity) \/ rule.t \notin {"str", "null"}
             THEN Raise(b, "ValidationError")
             ELSE LET error == ValidationError(
                                 IF StartsWith(path, "/") THEN path ELSE "/" \o path,
                                 message.v, severity.v,
                                 IF IsStr(rule) THEN rule.v ELSE NoRule)
                  IN  IF severity.v = "warning" THEN AddWarning(b, error)
                      ELSE AddError(b, error)

\* `for issue in issue_list: self._add_issue(path, issue, ...)`, from k on
RECURSIVE AddIssuesFrom(_, _, _, _)
AddIssuesFrom(path, issue_list, k, b) ==
    IF k > Len(issue_list) \/ b.exc # NoExc THEN b
    ELSE AddIssuesFrom(path, issue_list, k + 1, _add_issue(path, issue_list[k], b))

\* the loop of _extract_issues over issues.items(), from pair k on
RECURSIVE ExtractItemsFrom(_, _, _)
ExtractItemsFrom(pairs, k, b) ==
    IF k > Len(pairs) \/ b.exc # NoExc THEN b
    ELSE LET path == pairs[k][1]
             issue_list == pairs[k][2]
         IN  ExtractItemsFrom(pairs, k + 1,
               IF IsList(issue_list) THEN AddIssuesFrom(path, issue_list.v, 1, b)
               ELSE _add_issue(path, issue_list, b))

\* AasValidator._extract_issues
_extract_issues(issues, b) ==
    IF IsDict(issues) THEN ExtractItemsFrom(issues.v, 1, b)
    ELSE IF IsList(issues) THEN AddIssuesFrom("/", issues.v, 1, b)
    ELSE b

\* the dump fallback of _parse_aas_test_result (lines 435-445)
DumpFallback(result, b) ==
    IF result.dump.st # "value" THEN Raise(b, "DumpError")
    ELSE LET dump_output == result.dump.val
         IN  IF ~Truthy(dump_output) THEN b
             ELSE IF dump_output.t \notin {"str", "list"} THEN Raise(b, "TypeError")
             ELSE AddError(b, ValidationError("/",
                    "AAS validation failed: " \o
                      (IF IsStr(dump_output)
                       THEN SubSeq(dump_output.v, 1,
                                   IF Len(dump_output.v) < DumpLimit
                                   THEN Len(dump_output.v) ELSE DumpLimit)
                       ELSE PyStr(dump_output)),
                    "error", "aas-test-engines.validation"))

\* the try block of _parse_aas_test_result (lines 428-445)
ParseIssues(result, b) ==
    IF result._issues.st = "raises" THEN Raise(b, "IssuesError")
    ELSE IF result._issues.st = "value" THEN _extract_issues(result._issues.val, b)
    ELSE IF result.issues.st = "raises" THEN Raise(b, "IssuesError")
    ELSE IF result.issues.st = "value" THEN _extract_issues(result.issues.val, b)
    ELSE DumpFallback(result, b)

\* _parse_aas_test_result without the early return of the compliant branch
_parse_aas_test_result_no_return(result, b) ==
    IF b.exc # NoExc THEN b
    ELSE IF result.ok = "raise" THEN Raise(b, "OkError")
    ELSE LET b1 == IF result.ok = "true"
                   THEN AddInfo(b, ValidationError("/",
                          "AAS structure is compliant with metamodel specification",
                          "info", "aas-test-engines.compliance"))
                   ELSE b
             r == ParseIssues(result, b1)
         IN  IF r.exc # NoExc
             THEN AddError([r EXCEPT !.exc = NoExc], ValidationError("/",
                    "AAS validation failed (see aas-test-engines output)",
                    "error", "aas-test-engines.validation"))
             ELSE r

\* AasValidator._parse_aas_test_result
_parse_aas_test_result(result, b) ==
    IF b.exc # NoExc THEN b
    ELSE IF result.ok = "raise" THEN Raise(b, "OkError")
    ELSE IF result.ok = "true"
    THEN AddInfo(b, ValidationError("/",
           "AAS structure is compliant with metamodel specification",
           "info", "aas-test-engines.compliance"))
    ELSE LET r == ParseIssues(result, b)
         IN  IF r.exc # NoExc
             THEN AddError([r EXCEPT !.exc = NoExc], ValidationError("/",
                    "AAS validation failed (see aas-test-engines output)",
                    "error", "aas-test-engines.validation"))
             ELSE r

-----------------------------------------------------------------------------
(* aas_validator.py and schema_validator.py: the entry points.  The        *)
(* external checker is an input of a call: checker is [exc, result], exc   *)
(* the exception check_json_data / check_aasx_file raises (NoExc: none)    *)
(* and result the object it returns.  An entry point yields                *)
(* [kind |-> "report", report |-> r] or [kind |-> "raised", exc |-> e].    *)

Returned(report) == [kind |-> "report", report |-> report]

Raised(exc) == [kind |-> "raised", exc |-> exc]

\* ValidateBody that runs the semantic walker before the reference walker
ValidateBodyReordered(environment, options, checker) ==
    LET opts == IF Truthy(options) THEN options ELSE JDict(<<>>)
        b0 == IF ~IsDict(opts) THEN Raise(EmptyBuckets, "AttributeError")
              ELSE IF checker.exc # NoExc THEN Raise(EmptyBuckets, checker.exc)
              ELSE EmptyBuckets
        b1 == _parse_aas_test_result(checker.result, b0)
        b2 == IF b1.exc # NoExc THEN b1 ELSE _validate_structure(environment, b1)
        b3 == _validate_semantics(environment, b2)
    IN  _validate_references(environment, b3)

\* the body of the try block of AasValidator.validate (lines 58-70)
ValidateBody(environment, options, checker) ==
    LET opts == IF Truthy(options) THEN options ELSE JDict(<<>>)
        b0 == IF ~IsDict(opts) THEN Raise(EmptyBuckets, "AttributeError")
              ELSE IF checker.exc # NoExc THEN Raise(EmptyBuckets, checker.exc)
              ELSE EmptyBuckets
        b1 == _parse_aas_test_result(checker.result, b0)
        b2 == IF b1.exc # NoExc THEN b1 ELSE _validate_structure(environment, b1)
        b3 == _validate_references(environment, b2)
    IN  _validate_semantics(environment, b3)

\* CatchAll that swallows the exception without recording it
CatchAllSilent(b, prefix) == [b EXCEPT !.exc = NoExc]

\* except Exception as e: errors.append(... f"{prefix}: {e}" ...)
CatchAll(b, prefix) ==
    IF b.exc = NoExc THEN b
    ELSE AddError([b EXCEPT !.exc = NoExc],
                  ValidationError("/", prefix \o b.exc, "error", "validation.exception"))

\* ReportOf with valid taken from the warnings list
ReportOfWarnings(b) ==
    ValidationResult(Len(b.warnings) = 0, b.errors, b.warnings, b.info,
                     "aas-test-engines", "elapsed")

\* the report built from the three lists (lines 85-92, 131-138)
ReportOf(b) ==
    ValidationResult(Len(b.errors) = 0, b.errors, b.warnings, b.info,
                     "aas-test-engines", "elapsed")

\* AasValidator.validate
validate(environment, options, checker) ==
    Returned(ReportOf(CatchAll(ValidateBody(environment, options, checker),
                               "Validation exception: ")))

\* AasValidator.validate_aasx
validate_aasx(checker) ==
    LET b0 == IF checker.exc # NoExc THEN Raise(EmptyBuckets, checker.exc)
              ELSE EmptyBuckets
    IN  Returned(ReportOf(CatchAll(_parse_aas_test_result(checker.result, b0),
                                   "AASX validation exception: ")))

\* validate_json_bytes that leaves malformed JSON to validate's handler
validate_json_bytes_unguarded(content, checker) ==
    IF ~content.utf8 THEN Raised("UnicodeDecodeError")
    ELSE IF ~content.json
    THEN Returned(ReportOf(CatchAll(Raise(EmptyBuckets, "JSONDecodeError"),
                                    "Validation exception: ")))
    ELSE validate(content.value, JNull, checker)

\* AasValidator.validate_json_bytes; content is [utf8, json, value]: whether
\* the bytes decode as UTF-8, whether the text parses as JSON, and the value
\* json.loads returns
validate_json_bytes(content, checker) ==
    IF ~content.utf8 THEN Raised("UnicodeDecodeError")
    ELSE IF ~content.json
    THEN Returned(ValidationResult(FALSE,
           <<ValidationError("/", "Invalid JSON: JSONDecodeError", "error",
                             "schema.json")>>,
           <<>>, <<>>, "aas-test-engines", "0"))
    ELSE validate(content.value, JNull, checker)

\* the loop of SchemaValidator.validate over the three top-level keys
RECURSIVE CheckArrayTypesFrom(_, _, _, _)
CheckArrayTypesFrom(environment, keys, k, b) ==
    IF k > Len(keys) \/ b.exc # NoExc THEN b
    ELSE LET has == PyIn(keys[k], environment)
         IN  IF has = "E" THEN Raise(b, "TypeError")
             ELSE IF has = "F" THEN CheckArrayTypesFrom(environment, keys, k + 1, b)
             ELSE IF ~IsDict(environment) THEN Raise(b, "TypeError")
             ELSE CheckArrayTypesFrom(environment, keys, k + 1,
                    IF ~IsList(Item(environment, keys[k]))
                    THEN AddError(b, ValidationError("/" \o keys[k],
                           keys[k] \o " must be an array", "error",
                           "schema.structure"))
                    ELSE b)

\* SchemaValidator.validate
schema_validate(environment) ==
    LET b0 == IF ~IsDict(environment)
              THEN AddError(EmptyBuckets, ValidationError("/",
                     "Environment must be an object", "error", "schema.structure"))
              ELSE EmptyBuckets
        b1 == CheckArrayTypesFrom(environment,
                <<"assetAdministrationShells", "submodels", "conceptDescriptions">>,
                1, b0)
    IN  IF b1.exc # NoExc THEN Raised(b1.exc)
        ELSE Returned(ValidationResult(Len(b1.errors) = 0, b1.errors, b1.warnings,
                                       <<>>, "json-schema", "elapsed"))

-----------------------------------------------------------------------------
(* The inputs of the calls: documents, checker results, options, bytes *)

MaxShells == 2

MaxRefs == 2

MaxSubmodels == 2

MaxElems == 2

MaxDepth == 1

MaxIssues == 2

\* the requests the process handles at the same time
MaxRequests == 2

\* the version queries a behaviour runs
MaxQueries == 2

SeqsUpTo(S, n) == UNION {[1..k -> S] : k \in 0..n}

\* the empty sequence and the sequences of at most n items that hold one
\* item of X among items of F
Around(F, X, n) ==
    {<<>>} \cup
    UNION {{pq[1] \o <<x>> \o pq[2] : x \in X} :
           pq \in {qq \in SeqsUpTo(F, n - 1) \X SeqsUpTo(F, n - 1) :
                     Len(qq[1]) + Len(qq[2]) <= n - 1}}

\* a key of a reference, with and without a value
Key(v) == JDict(<< <<"type", JStr("Submodel")>>, <<"value", v>> >>)

KeyNoValue == JDict(<< <<"type", JStr("Submodel")>> >>)

\* a reference with the given keys field
RefKeys(keys) == JDict(<< <<"type", JStr("ModelReference")>>, <<"keys", keys>> >>)

RefTo(v) == RefKeys(JList(<<Key(v)>>))

\* "A" is the ID of a shell, "S1" and "S2" of submodels, "X" of nothing but
\* (in some documents) a concept description
RefGood == RefTo(JStr("S1"))

RefDangling == RefTo(JStr("X"))

RefUnhashable == RefTo(JList(<<JNum(1)>>))

\* the shapes of a reference value
RefShapes ==
    {RefGood, RefDangling, RefTo(JStr("")), RefUnhashable, RefTo(JNum(7)),
     RefTo(JNull), JNull, JStr("X"), JNum(1), JList(<<Key(JStr("X"))>>),
     JDict(<<>>), JDict(<< <<"type", JStr("ModelReference")>> >>),
     RefKeys(JList(<<>>)), RefKeys(JStr("X")), RefKeys(JList(<<JStr("X")>>)),
     RefKeys(JList(<<KeyNoValue>>)),
     RefKeys(JList(<<Key(JStr("X")), Key(JStr("S1"))>>)),
     RefKeys(JList(<<Key(JStr("S1")), Key(JStr("X"))>>))}

\* a dict of the pairs whose value is present; absent values are "absent"
Absent == [t |-> "absent"]

RECURSIVE PairsOf(_, _)
PairsOf(fields, k) ==
    IF k > Len(fields) THEN <<>>
    ELSE (IF fields[k][2].t = "absent" THEN <<>> ELSE <<fields[k]>>) \o PairsOf(fields, k + 1)

Obj(fields) == JDict(PairsOf(fields, 1))

\* shells: a shell has id "A", a submodels list and maybe derivedFrom
Shell(id, submodels, derivedFrom) ==
    Obj(<< <<"modelType", JStr("AssetAdministrationShell")>>, <<"id", id>>,
           <<"submodels", submodels>>, <<"derivedFrom", derivedFrom>> >>)

ShellFillers ==
    {Shell(JStr("A"), Absent, Absent),
     Shell(JStr("A"), JList(<<RefDangling>>), Absent)}

Shells ==
    {Shell(JStr("A"), JList(refs), Absent) :
        refs \in Around({RefGood, RefDangling}, RefShapes, MaxRefs)}
    \cup {Shell(JStr("A"), JList(<<r>>), d) :
            r \in {RefGood, RefDangling},
            d \in {RefDangling, RefGood, RefUnhashable}}
    \cup {Shell(Absent, Absent, RefTo(JStr("A"))),
          Shell(JList(<<>>), Absent, Absent),
          Shell(JStr("A"), JNum(1), RefDangling),
          Shell(JStr("A"), RefDangling, Absent),
          JNum(1), JStr("ids"), JStr("s")}

ShellLists == Around(ShellFillers, Shells, MaxShells)

\* submodel elements
Elem(modelType, value, first, second) ==
    Obj(<< <<"modelType", modelType>>, <<"idShort", JStr("e")>>, <<"value", value>>,
           <<"first", first>>, <<"second", second>> >>)

ReferenceElement(value) == Elem(JStr("ReferenceElement"), value, Absent, Absent)

RelationshipElement(first, second) ==
    Elem(JStr("RelationshipElement"), Absent, first, second)

Entity ==
    Obj(<< <<"modelType", JStr("Entity")>>, <<"globalAssetId", JStr("X")>>,
           <<"value", RefDangling>> >>)

ElemFillers == {ReferenceElement(RefDangling), Elem(JStr("Property"), RefDangling, Absent, Absent)}

NestedLeaves ==
    {ReferenceElement(RefDangling), RelationshipElement(RefDangling, RefDangling), JNum(1)}

Leaves ==
    ElemFillers \cup NestedLeaves
    \cup {ReferenceElement(RefGood), ReferenceElement(Absent),
          ReferenceElement(RefTo(JStr(""))), ReferenceElement(RefUnhashable),
          RelationshipElement(RefGood, RefDangling),
          RelationshipElement(RefDangling, Absent),
          RelationshipElement(RefUnhashable, RefDangling),
          Entity, Elem(Absent, RefDangling, RefDangling, RefDangling),
          Elem(JNum(1), RefDangling, Absent, Absent)}

Containers == {JStr("SubmodelElementCollection"), JStr("SubmodelElementList")}

\* the element lists nested at most d deep: one element of interest among
\* fillers, a container holding such a list again
RECURSIVE ElemLists(_)
ElemLists(d) ==
    Around(IF d = MaxDepth THEN ElemFillers ELSE {ReferenceElement(RefDangling)},
           (IF d = MaxDepth THEN Leaves ELSE NestedLeaves)
           \cup (IF d = 0 THEN {}
                 ELSE {Elem(c, v, Absent, Absent) :
                         c \in Containers,
                         v \in {Absent, RefDangling, JNull}
                               \cup {JList(l) : l \in ElemLists(d - 1)}}),
           MaxElems)

\* submodels
Submodel(id, semanticId, submodelElements) ==
    Obj(<< <<"modelType", JStr("Submodel")>>, <<"id", id>>,
           <<"semanticId", semanticId>>, <<"submodelElements", submodelElements>> >>)

SubmodelFillers ==
    {Submodel(JStr("S1"), RefTo(JStr("sem")), JList(<<>>)),
     Submodel(JStr("S2"), Absent, Absent)}

SubmodelsCore ==
    SubmodelFillers
    \cup {Submodel(JStr("S1"), s, e) : s \in {Absent, JNull}, e \in {Absent, JNum(1)}}
    \cup {Submodel(JStr("S1"), Absent, JList(<<ReferenceElement(RefDangling)>>)),
          Submodel(Absent, Absent, Absent), JNum(1), JStr("semanticId")}

SubmodelLists ==
    Around(SubmodelFillers, SubmodelsCore, MaxSubmodels)
    \cup {<<Submodel(JStr("S1"), RefTo(JStr("sem")), JList(l))>> :
            l \in ElemLists(MaxDepth)}

\* environments
Env(shells, submodels, conceptDescriptions) ==
    Obj(<< <<"assetAdministrationShells", shells>>, <<"submodels", submodels>>,
           <<"conceptDescriptions", conceptDescriptions>> >>)

ConceptX == JList(<<Obj(<< <<"id", JStr("X")>> >>)>>)

PlainShells == JList(<<Shell(JStr("A"), JList(<<RefGood>>), Absent)>>)

PlainSubmodels == JList(<<Submodel(JStr("S1"), RefTo(JStr("sem")), JList(<<>>))>>)

\* documents that vary the shells
ShellDocs ==
    {Env(a, tl[1], tl[2]) :
        a \in {Absent, JNull} \cup {JList(l) : l \in ShellLists},
        tl \in {<<Absent, Absent>>, <<PlainSubmodels, Absent>>,
                <<PlainSubmodels, ConceptX>>, <<PlainSubmodels, JNum(1)>>}}

\* documents that vary the submodels
SubmodelDocs ==
    {Env(PlainShells, sm, Absent) :
        sm \in {JNull, JStr("ab")} \cup {JList(l) : l \in SubmodelLists}}

\* a few documents of every kind, and values that are no document at all
CoreDocs ==
    {Env(PlainShells, PlainSubmodels, JList(<<>>)),
     Env(JList(<<Shell(JStr("A"), JList(<<RefDangling>>), RefDangling)>>),
         JList(<<Submodel(JStr("S1"), Absent,
                          JList(<<ReferenceElement(RefDangling)>>))>>), Absent),
     Env(Absent, Absent, Absent),
     Env(JNum(1), JList(<<>>), JList(<<>>)),
     Env(JList(<<>>), JNull, Absent),
     JList(<<>>), JNum(1), JNull, JStr("submodels")}

\* checker results
Attr(st, val) == [st |-> st, val |-> val]

NoAttr == Attr("absent", JNull)

BadAttr == Attr("raises", JNull)

Result(ok, uissues, issues, dump) ==
    [ok |-> ok, _issues |-> uissues, issues |-> issues, dump |-> dump]

Issue(message, severity, rule) ==
    Obj(<< <<"message", message>>, <<"severity", severity>>, <<"rule", rule>> >>)

IssueFillers == {JStr("plain"), Issue(JStr("m"), JStr("warning"), Absent)}

Issues ==
    IssueFillers
    \cup {Issue(Absent, sev, Absent) :
            sev \in {Absent, JStr("error"), JStr("info"), JStr("bogus"),
                     JStr("warning"), JStr("Warning"), JNull, JList(<<>>)}}
    \cup {Issue(JStr("m"), JStr("error"), JStr("r1")),
          Issue(JStr("m"), JStr("warning"), JNull),
          Issue(JNull, JStr("warning"), Absent),
          Issue(JStr("m"), Absent, JList(<<>>)),
          JNum(5), JNull, JList(<<JStr("plain")>>)}

IssueLists == Around(IssueFillers, Issues, MaxIssues)

\* the shapes of an issue collection
IssueCollections ==
    {JNull, JStr("issues"), JNum(0), JDict(<<>>)}
    \cup {JList(l) : l \in IssueLists}
    \cup {JDict(<< <<p, JList(l)>> >>) : p \in {"/a", "b"}, l \in IssueLists}
    \cup {JDict(<< <<"/a", i>>, <<"b", j>> >>) :
            i \in IssueFillers \cup {JNull}, j \in Issues}

RECURSIVE Repeat(_, _)
Repeat(str, n) ==
    IF n = 0 THEN ""
    ELSE IF n = 1 THEN str
    ELSE Repeat(str, n \div 2) \o Repeat(str, n - (n \div 2))

Dumps ==
    {BadAttr} \cup
    {Attr("value", d) :
        d \in {JStr(""), JStr("dump"), JStr(Repeat("x", DumpLimit)),
               JStr(Repeat("x", DumpLimit) \o "y"), JNull, JNum(1),
               JList(<<JStr("d")>>)}}

TextDump == Attr("value", JStr("dump"))

OneError == Attr("value", JList(<<JStr("plain")>>))

Results ==
    {Result("raise", OneError, NoAttr, TextDump)}
    \cup {Result("true", u, NoAttr, d) :
            u \in {NoAttr, BadAttr, OneError}, d \in {BadAttr, TextDump}}
    \cup {Result("false", Attr("value", c), i, BadAttr) :
            c \in IssueCollections, i \in {NoAttr, OneError}}
    \cup {Result("false", NoAttr, Attr("value", c), TextDump) : c \in IssueCollections}
    \cup {Result("false", u, i, TextDump) :
            u \in {BadAttr, NoAttr}, i \in {BadAttr, OneError}}
    \cup {Result("false", NoAttr, NoAttr, d) : d \in Dumps}

Checker(exc, result) == [exc |-> exc, result |-> result]

Compliant == Result("true", NoAttr, NoAttr, TextDump)

\* every checker behaviour: raising, or returning one of the results
Checkers == {Checker("CheckerError", Compliant)} \cup {Checker(NoExc, r) : r \in Results}

\* the checker behaviours paired with the documents that vary
CoreCheckers ==
    {Checker("CheckerError", Compliant), Checker(NoExc, Compliant),
     Checker(NoExc, Result("false", OneError, NoAttr, TextDump)),
     Checker(NoExc, Result("false",
        Attr("value", JList(<<Issue(JStr("m"), JStr("warning"), Absent)>>)),
        NoAttr, TextDump))}

OptionValues ==
    {JNull, JDict(<<>>), JDict(<< <<"version", JStr("3.0")>> >>),
     JList(<<JNum(1)>>), JStr("3.0"), JNum(0)}

\* the inputs of validate: <<environment, options, checker>>
ValidateInputs ==
    ((ShellDocs \cup SubmodelDocs) \X {JNull} \X {Checker(NoExc, Compliant)})
    \cup (CoreDocs \X {JNull} \X Checkers)
    \cup (CoreDocs \X OptionValues \X CoreCheckers)

\* the inputs of _extract_reference_id: the shapes of a reference value,
\* and references with up to MaxRefs + 1 keys of every kind
KeyItems ==
    {Key(JStr("X")), Key(JStr("S1")), Key(JStr("")), Key(JNull), Key(JList(<<JNum(1)>>)),
     KeyNoValue, JStr("X"), JNull, JList(<<Key(JStr("X"))>>)}

ReferenceInputs ==
    RefShapes
    \cup {RefKeys(JList(keys)) : keys \in SeqsUpTo(KeyItems, MaxRefs + 1)}
    \cup {JStr(""), JNum(0), JList(<<>>), RefKeys(JNull), RefKeys(JNum(2)),
          RefKeys(Key(JStr("X"))),
          JDict(<< <<"keys", JList(<<Key(JStr("X"))>>)>>, <<"value", JStr("S1")>> >>)}

\* the inputs of validate_json_bytes: <<content, checker>>
Content(utf8, json, value) == [utf8 |-> utf8, json |-> json, value |-> value]

ContentInputs ==
    ({Content(FALSE, FALSE, JNull), Content(TRUE, FALSE, JNull)} \X CoreCheckers)
    \cup ({Content(TRUE, TRUE, d) : d \in CoreDocs} \X CoreCheckers)
    \cup ({Content(TRUE, TRUE, Env(Absent, PlainSubmodels, Absent))} \X Checkers)

-----------------------------------------------------------------------------
(* The validators: Spec is the entry points of a constructed validator,   *)
(* called one at a time on every input.  pc, call and outcome are the      *)
(* state of the call; the process state (requests, the readiness cache,    *)
(* the count of version queries) is what the routes of ServiceSpec work    *)
(* on, and no method of a validator reads or writes it.                    *)

NoCall == [op |-> "none"]

NoOutcome == [kind |-> "none"]

\* the slots of the requests the process is handling
Requests == 1..MaxRequests

Idle == [pc |-> "idle", call |-> NoCall, b |-> EmptyBuckets, outcome |-> NoOutcome]

\* None
None == JNull

Init ==
    /\ pc = "idle"
    /\ call = NoCall
    /\ outcome = NoOutcome
    /\ requests = [r \in Requests |-> Idle]
    /\ _aas_test_engines_status = None
    /\ version_queries = 0

\* AasValidator.validate
Validate ==
    /\ pc = "idle"
    /\ \E in \in ValidateInputs :
        /\ call' = [op |-> "validate", environment |-> in[1], options |-> in[2],
                    checker |-> in[3]]
        /\ outcome' = validate(in[1], in[2], in[3])
    /\ pc' = "done"
    /\ UNCHANGED processVars

\* AasValidator.validate_aasx
ValidateAasx ==
    /\ pc = "idle"
    /\ \E checker \in Checkers :
        /\ call' = [op |-> "validate_aasx", checker |-> checker]
        /\ outcome' = validate_aasx(checker)
    /\ pc' = "done"
    /\ UNCHANGED processVars

\* AasValidator.validate_json_bytes
ValidateJsonBytes ==
    /\ pc = "idle"
    /\ \E in \in ContentInputs :
        /\ call' = [op |-> "validate_json_bytes", content |-> in[1], checker |-> in[2]]
        /\ outcome' = validate_json_bytes(in[1], in[2])
    /\ pc' = "done"
    /\ UNCHANGED processVars

\* SchemaValidator.validate
SchemaValidate ==
    /\ pc = "idle"
    /\ \E environment \in CoreDocs \cup SubmodelDocs :
        /\ call' = [op |-> "schema_validate", environment |-> environment]
        /\ outcome' = schema_validate(environment)
    /\ pc' = "done"
    /\ UNCHANGED processVars

\* AasValidator._extract_reference_id, called on a reference of any shape
ExtractReferenceId ==
    /\ pc = "idle"
    /\ \E reference \in ReferenceInputs :
        /\ call' = [op |-> "_extract_reference_id", reference |-> reference]
        /\ outcome' = [kind |-> "value", value |-> _extract_reference_id(reference)]
    /\ pc' = "done"
    /\ UNCHANGED processVars

\* the caller has the result and the next call can be made
Respond ==
    /\ pc = "done"
    /\ pc' = "idle"
    /\ call' = NoCall
    /\ outcome' = NoOutcome
    /\ UNCHANGED processVars

Next ==
    \/ Validate
    \/ ValidateAasx
    \/ ValidateJsonBytes
    \/ SchemaValidate
    \/ ExtractReferenceId
    \/ Respond

Spec == Init /\ [][Next]_vars

-----------------------------------------------------------------------------
(* The service process (routes/validate.py, routes/health.py): ServiceSpec *)
(* is the routes handling up to MaxRequests requests at a time.  Each      *)
(* request has its own slot of requests: [pc, call, b, outcome], b the     *)
(* errors, warnings and info lists that are locals of its validate call.   *)
(* asyncio switches between requests only at an await (the read of an      *)
(* uploaded file); ServiceSpec lets requests interleave between any two    *)
(* stages of validate as well, which includes every schedule of the event  *)
(* loop and those of handlers run by a pool of threads.                    *)

\* what aas_file.supported_versions() / latest_version() do when called:
\* they return the versions or raise
VersionAnswers ==
    {[exc |-> NoExc, supported |-> <<"3.0", "3.1">>, latest |-> "3.1"],
     [exc |-> "VersionError", supported |-> <<>>, latest |-> ""]}

\* AasValidator.__init__: the instance, or the exception of the version query
AasValidator(answer) ==
    [exc |-> answer.exc, _supported_versions |-> answer.supported,
     _latest_version |-> answer.latest]

\* _check_aas_test_engines that asks the checker again on every call
_check_aas_test_engines_uncached(status, answer) ==
    IF answer.exc = NoExc
    THEN [status |-> [available |-> TRUE, supported_versions |-> answer.supported,
                      latest_version |-> answer.latest],
          queried |-> TRUE]
    ELSE [status |-> [available |-> FALSE, error |-> answer.exc], queried |-> TRUE]

\* _check_aas_test_engines: the status it returns (and caches) and whether
\* it ran the version query; status is the cached value on entry
_check_aas_test_engines(status, answer) ==
    IF status # None THEN [status |-> status, queried |-> FALSE]
    ELSE IF answer.exc = NoExc
    THEN [status |-> [available |-> TRUE, supported_versions |-> answer.supported,
                      latest_version |-> answer.latest],
          queried |-> TRUE]
    ELSE [status |-> [available |-> FALSE, error |-> answer.exc], queried |-> TRUE]

\* raise HTTPException(status_code=400, detail=...)
HTTPException(detail) == [kind |-> "http_error", status_code |-> 400, detail |-> detail]

\* try: return await validator...; except Exception as e: raise HTTPException
RouteResult(result) ==
    IF result.kind = "raised" THEN HTTPException(result.exc) ELSE result

\* the documents and checker behaviours of the requests
ServiceDocs ==
    {Env(JList(<<Shell(JStr("A"), JList(<<RefDangling>>), RefDangling)>>),
         JList(<<Submodel(JStr("S1"), Absent,
                          JList(<<ReferenceElement(RefDangling)>>))>>), Absent),
     Env(JList(<<>>), JNum(1), Absent)}

ServiceCheckers ==
    {Checker(NoExc, Compliant),
     Checker(NoExc, Result("false",
        Attr("value", JList(<<JStr("plain"),
                              Issue(JStr("m"), JStr("warning"), Absent)>>)),
        NoAttr, TextDump))}

\* an uploaded file: its name's kind, its bytes and what the checker does
Uploads ==
    {[filename |-> f, content |-> Content(TRUE, FALSE, JNull),
      checker |-> Checker(NoExc, Compliant)] : f \in {"", "a.txt", "a.aasx"}}
    \cup {[filename |-> "a.json", content |-> c, checker |-> Checker(NoExc, Compliant)] :
            c \in {Content(FALSE, FALSE, JNull),
                   Content(TRUE, TRUE, Env(PlainShells, PlainSubmodels, JList(<<>>)))}}

\* SetRequest with one set of lists shared by the calls that are running
SetRequestSharedLists(reqs, r, slot) ==
    [q \in DOMAIN reqs |->
        IF q = r THEN slot
        ELSE IF reqs[q].pc \in {"check", "structure", "references", "semantics", "report"}
        THEN [reqs[q] EXCEPT !.b = slot.b]
        ELSE reqs[q]]

\* request r's slot becomes slot; the lists of a call are its locals, no
\* other slot changes
SetRequest(reqs, r, slot) == [reqs EXCEPT ![r] = slot]

\* lines 59-65 of validate: the version lookup, the checker, the normalizer
CheckStage(c, b) ==
    LET opts == IF Truthy(c.options) THEN c.options ELSE JDict(<<>>)
        b0 == IF ~IsDict(opts) THEN Raise(b, "AttributeError")
              ELSE IF c.checker.exc # NoExc THEN Raise(b, c.checker.exc)
              ELSE b
    IN  _parse_aas_test_result(c.checker.result, b0)

\* the stage of validate a request at pc runs on its lists
StageOf(stage, c, b) ==
    CASE stage = "check"      -> CheckStage(c, b)
      [] stage = "structure"  -> _validate_structure(c.environment, b)
      [] stage = "references" -> _validate_references(c.environment, b)
      [] stage = "semantics"  -> _validate_semantics(c.environment, b)

\* where validate continues after a stage: the except clause when it raised
AfterStage(stage, b) ==
    IF b.exc # NoExc THEN "report"
    ELSE CASE stage = "check"      -> "structure"
           [] stage = "structure"  -> "references"
           [] stage = "references" -> "semantics"
           [] stage = "semantics"  -> "report"

\* POST /validate/json, up to the call of validate: the validator is
\* constructed (outside the try block) and validate starts with empty lists
validate_json(r) ==
    /\ requests[r].pc = "idle"
    /\ version_queries < MaxQueries
    /\ \E environment \in ServiceDocs, checker \in ServiceCheckers,
          answer \in VersionAnswers :
        LET c == [op |-> "validate_json", environment |-> environment,
                  options |-> JNull, checker |-> checker]
            validator == AasValidator(answer)
        IN  requests' = SetRequest(requests, r,
              IF validator.exc # NoExc
              THEN [pc |-> "done", call |-> c, b |-> EmptyBuckets,
                    outcome |-> Raised(validator.exc)]
              ELSE [pc |-> "check", call |-> c, b |-> EmptyBuckets,
                    outcome |-> NoOutcome])
    /\ version_queries' = version_queries + 1
    /\ UNCHANGED <<callVars, _aas_test_engines_status>>

\* one stage of the try block of validate
validate_stage(r) ==
    /\ requests[r].pc \in {"check", "structure", "references", "semantics"}
    /\ LET b == StageOf(requests[r].pc, requests[r].call, requests[r].b)
       IN  requests' = SetRequest(requests, r,
             [requests[r] EXCEPT !.b = b, !.pc = AfterStage(requests[r].pc, b)])
    /\ UNCHANGED <<callVars, _aas_test_engines_status, version_queries>>

\* the except clause and the report of validate; the route returns it
validate_report(r) ==
    /\ requests[r].pc = "report"
    /\ requests' = SetRequest(requests, r,
         [requests[r] EXCEPT
            !.outcome = RouteResult(Returned(ReportOf(
                            CatchAll(requests[r].b, "Validation exception: ")))),
            !.pc = "done"])
    /\ UNCHANGED <<callVars, _aas_test_engines_status, version_queries>>

\* POST /validate/file, up to `await file.read()`
validate_file(r) ==
    /\ requests[r].pc = "idle"
    /\ \E upload \in Uploads :
        LET c == [op |-> "validate_file", filename |-> upload.filename,
                  content |-> upload.content, checker |-> upload.checker]
        IN  requests' = SetRequest(requests, r,
              IF upload.filename = ""
              THEN [pc |-> "done", call |-> c, b |-> EmptyBuckets,
                    outcome |-> HTTPException("Filename required")]
              ELSE IF upload.filename \notin {"a.aasx", "a.json"}
              THEN [pc |-> "done", call |-> c, b |-> EmptyBuckets,
                    outcome |-> HTTPException("File must be .aasx or .json")]
              ELSE [pc |-> "reading", call |-> c, b |-> EmptyBuckets,
                    outcome |-> NoOutcome])
    /\ UNCHANGED <<callVars, _aas_test_engines_status, version_queries>>

\* POST /validate/file, from the end of `await file.read()` on
validate_file_read(r) ==
    /\ requests[r].pc = "reading"
    /\ version_queries < MaxQueries
    /\ \E answer \in VersionAnswers :
        LET c == requests[r].call
            validator == AasValidator(answer)
        IN  requests' = SetRequest(requests, r,
              [requests[r] EXCEPT
                 !.pc = "done",
                 !.outcome =
                    IF validator.exc # NoExc THEN Raised(validator.exc)
                    ELSE IF c.filename = "a.aasx"
                    THEN RouteResult(validate_aasx(c.checker))
                    ELSE RouteResult(validate_json_bytes(c.content, c.checker))])
    /\ version_queries' = version_queries + 1
    /\ UNCHANGED <<callVars, _aas_test_engines_status>>

\* POST /validate/schema
validate_schema(r) ==
    /\ requests[r].pc = "idle"
    /\ \E environment \in {Env(PlainShells, JNull, Absent), JNum(1)} :
        requests' = SetRequest(requests, r,
          [pc |-> "done",
           call |-> [op |-> "validate_schema", environment |-> environment],
           b |-> EmptyBuckets,
           outcome |-> RouteResult(schema_validate(environment))])
    /\ UNCHANGED <<callVars, _aas_test_engines_status, version_queries>>

\* GET /ready
readiness_check(r) ==
    /\ requests[r].pc = "idle"
    /\ \E answer \in VersionAnswers :
        LET got == _check_aas_test_engines(_aas_test_engines_status, answer)
        IN  /\ got.queried => version_queries < MaxQueries
            /\ _aas_test_engines_status' = got.status
            /\ version_queries' = version_queries + (IF got.queried THEN 1 ELSE 0)
            /\ requests' = SetRequest(requests, r,
                 [pc |-> "done", call |-> [op |-> "readiness_check"],
                  b |-> EmptyBuckets,
                  outcome |-> [kind |-> "ready",
                               status |-> IF got.status.available THEN "ready"
                                          ELSE "not_ready",
                               validators |-> got.status]])
    /\ UNCHANGED callVars

\* the response of request r is sent
respond(r) ==
    /\ requests[r].pc = "done"
    /\ requests' = SetRequest(requests, r, Idle)
    /\ UNCHANGED <<callVars, _aas_test_engines_status, version_queries>>

ServiceNext ==
    \E r \in Requests :
        \/ validate_json(r)
        \/ validate_stage(r)
        \/ validate_report(r)
        \/ validate_file(r)
        \/ validate_file_read(r)
        \/ validate_schema(r)
        \/ readiness_check(r)
        \/ respond(r)

ServiceSpec == Init /\ [][ServiceNext]_vars

-----------------------------------------------------------------------------
(* Properties.  A call is over when pc = "done"; call holds its inputs and *)
(* outcome what it returned or raised.                                     *)

Done == pc = "done"

HasReport == Done /\ outcome.kind = "report"

Report == outcome.report

\* the call ran AasValidator.validate, directly or from validate_json_bytes
ViaValidate ==
    /\ Done
    /\ \/ call.op = "validate"
       \/ call.op = "validate_json_bytes" /\ call.content.utf8 /\ call.content.json

Doc == IF call.op = "validate" THEN call.environment ELSE call.content.value

Opts == IF call.op = "validate" THEN call.options ELSE JNull

\* options.get works on `options or {}`: options is falsy or a dict
OptionsUsable == ~Truthy(Opts) \/ IsDict(Opts)

\* the diagnostics of seq with the given rule
WithRule(seq, rule) == SelectSeq(seq, LAMBDA d : d.rule = rule)

\* the diagnostics of seq with the given rule at the given path
At(seq, path, rule) == SelectSeq(seq, LAMBDA d : d.rule = rule /\ d.path = path)

\* C1: every report an entry point returns has valid = TRUE exactly when
\* its errors bucket is empty, reports built after a caught exception
\* included.
C1_ValidIffNoErrors ==
    HasReport => (Report.valid <=> Len(Report.errors) = 0)

\* a report built after an exception was caught: it is not valid
C1_Witness ==
    /\ HasReport
    /\ call.op = "validate"
    /\ call.checker.exc # NoExc
    /\ Len(WithRule(Report.errors, "validation.exception")) = 1
    /\ ~Report.valid

\* C6: AasValidator.validate always returns a report; when a step of the
\* pipeline raised, the report holds exactly one validation.exception error,
\* at path / and carrying the exception's message, and it is not valid;
\* when no step raised there is no such error.
C6_ValidateNeverRaises ==
    ViaValidate =>
        /\ outcome.kind = "report"
        /\ LET exc == ValidateBody(Doc, Opts, call.checker).exc
               caught == WithRule(Report.errors, "validation.exception")
           IN  /\ (~OptionsUsable => exc = "AttributeError")
               /\ (OptionsUsable /\ call.checker.exc # NoExc => exc = call.checker.exc)
               /\ IF exc = NoExc THEN caught = <<>>
                  ELSE /\ caught = <<ValidationError("/", "Validation exception: " \o exc,
                                                     "error", "validation.exception")>>
                       /\ Report.errors[Len(Report.errors)] = caught[1]
                       /\ ~Report.valid

\* a walker raised on a malformed document after the checker had passed
C6_Witness ==
    /\ ViaValidate
    /\ call.checker.exc = NoExc
    /\ call.checker.result.ok = "true"
    /\ IsDict(Doc)
    /\ outcome.kind = "report"
    /\ Len(Report.info) = 1
    /\ Len(WithRule(Report.errors, "validation.exception")) = 1

\* the items of the list under key of a mapping document (none otherwise)
ListOf(d, key) ==
    IF IsDict(d) /\ HasKey(d, key) /\ IsList(Item(d, key)) THEN Item(d, key).v ELSE <<>>

\* the identifier index of a document: the id of every shell, submodel and
\* concept description that carries one
IdentifierIndex(d) ==
    UNION {{Item(ListOf(d, key)[k], "id") :
              k \in {n \in 1..Len(ListOf(d, key)) :
                       IsDict(ListOf(d, key)[n]) /\ HasKey(ListOf(d, key)[n], "id")}} :
           key \in {"assetAdministrationShells", "submodels", "conceptDescriptions"}}

ShellsOf(d) == ListOf(d, "assetAdministrationShells")

SubmodelsOf(d) == ListOf(d, "submodels")

ShellRefPath(i, j) ==
    "/assetAdministrationShells/" \o ToString(i - 1) \o "/submodels/" \o ToString(j - 1)

\* the (1-based) positions <<i, j>> of the shell submodel references of d
ShellRefs(d) ==
    UNION {{<<i, j>> : j \in 1..Len(ListOf(ShellsOf(d)[i], "submodels"))} :
           i \in 1..Len(ShellsOf(d))}

ShellRef(d, ij) == ListOf(ShellsOf(d)[ij[1]], "submodels")[ij[2]]

\* the caught exception of the report, if any
Aborted == WithRule(Report.errors, "validation.exception") # <<>>

\* the external checker was called and returned: its result was normalized
NormalizerRan == OptionsUsable /\ call.checker.exc = NoExc

\* what the normalizer put into the buckets before the walkers ran
Normalized ==
    IF NormalizerRan THEN _parse_aas_test_result(call.checker.result, EmptyBuckets)
    ELSE EmptyBuckets

\* the diagnostics of the report that follow the normalizer's
WalkerErrors == SubSeq(Report.errors, Len(Normalized.errors) + 1, Len(Report.errors))

WalkerWarnings ==
    SubSeq(Report.warnings, Len(Normalized.warnings) + 1, Len(Report.warnings))

\* C2 as stated: every shell submodel reference that resolves to a target ID
\* missing from the identifier index is reported as a references.broken error
\* at /assetAdministrationShells/{i}/submodels/{j}, and the report is not
\* valid.
C2_Original ==
    ViaValidate =>
        \A ij \in ShellRefs(Doc) :
            LET ref_id == _extract_reference_id(ShellRef(Doc, ij))
            IN  (ref_id # JNull /\ ref_id \notin IdentifierIndex(Doc)) =>
                    /\ At(Report.errors, ShellRefPath(ij[1], ij[2]),
                          "references.broken") # <<>>
                    /\ ~Report.valid

\* C2 amended: every shell submodel reference that resolves to a non-empty
\* (truthy) target ID missing from the identifier index makes the report
\* not valid: it is reported as a references.broken error at
\* /assetAdministrationShells/{i}/submodels/{j}, unless validate aborted and
\* the report holds a validation.exception error instead.
C2_BrokenReference ==
    ViaValidate =>
        \A ij \in ShellRefs(Doc) :
            LET ref_id == _extract_reference_id(ShellRef(Doc, ij))
            IN  (Truthy(ref_id) /\ ref_id \notin IdentifierIndex(Doc)) =>
                    /\ \/ Len(At(WalkerErrors, ShellRefPath(ij[1], ij[2]),
                                 "references.broken")) = 1
                       \/ Aborted
                    /\ ~Report.valid

\* the second reference of the second shell is broken and reported
C2_Witness ==
    /\ ViaValidate
    /\ ~Aborted
    /\ <<2, 2>> \in ShellRefs(Doc)
    /\ _extract_reference_id(ShellRef(Doc, <<2, 2>>)) = JStr("X")
    /\ JStr("X") \notin IdentifierIndex(Doc)
    /\ At(Report.errors, "/assetAdministrationShells/1/submodels/1",
          "references.broken") # <<>>

IsContainer(e) ==
    Get(e, "modelType") \in {JStr("SubmodelElementCollection"), JStr("SubmodelElementList")}

\* the elements of an element list, with their paths: <<path, element>> for
\* every mapping in the list and, below a collection or list element, in its
\* value sequence
RECURSIVE ElementsUnder(_, _)
ElementsUnder(elements, base_path) ==
    UNION {LET e == elements[k]
               path == base_path \o "/" \o ToString(k - 1)
           IN  IF ~IsDict(e) THEN {}
               ELSE {<<path, e>>} \cup
                    (IF IsContainer(e) /\ IsList(Get(e, "value"))
                     THEN ElementsUnder(Get(e, "value").v, path \o "/value")
                     ELSE {})
           : k \in 1..Len(elements)}

\* every element of every submodel of a document
AllElements(d) ==
    UNION {ElementsUnder(ListOf(SubmodelsOf(d)[i], "submodelElements"),
                         "/submodels/" \o ToString(i - 1) \o "/submodelElements")
           : i \in 1..Len(SubmodelsOf(d))}

\* the references an element holds that the walker is to check, with the
\* path of the diagnostic: <<path, reference>>
CheckedRefs(pe) ==
    LET path == pe[1]
        e == pe[2]
    IN  IF Get(e, "modelType") = JStr("ReferenceElement")
        THEN {<<path, Get(e, "value")>>}
        ELSE IF Get(e, "modelType") = JStr("RelationshipElement")
        THEN {<<path \o "/first", Get(e, "first")>>, <<path \o "/second", Get(e, "second")>>}
        ELSE {}

DerivedFromPath(i) == "/assetAdministrationShells/" \o ToString(i - 1) \o "/derivedFrom"

\* C3 as stated: every ReferenceElement / RelationshipElement reference
\* whose target is missing from the identifier index is reported as a
\* references.unknown warning at its path and never as an error.
C3_Original ==
    ViaValidate =>
        \A pe \in AllElements(Doc) : \A pr \in CheckedRefs(pe) :
            LET ref_id == _extract_reference_id(pr[2])
            IN  (ref_id # JNull /\ ref_id \notin IdentifierIndex(Doc)) =>
                    /\ At(Report.warnings, pr[1], "references.unknown") # <<>>
                    /\ At(Report.errors, pr[1], "references.unknown") = <<>>

\* C3 amended: unless validate aborted (the report then holds a
\* validation.exception error), every ReferenceElement / RelationshipElement
\* reference whose non-empty (truthy) target is missing from the identifier
\* index is reported as one references.unknown warning at its path (the
\* element path, {path}/first or {path}/second), and a shell's dangling
\* derivedFrom as one references.external warning; in every report the
\* errors the walkers add are references.broken errors at shell submodel
\* paths and at most the final validation.exception error.
C3_UnknownReferenceWarns ==
    ViaValidate =>
        /\ ~Aborted =>
             /\ \A pe \in AllElements(Doc) : \A pr \in CheckedRefs(pe) :
                  LET ref_id == _extract_reference_id(pr[2])
                  IN  (Truthy(ref_id) /\ ref_id \notin IdentifierIndex(Doc)) =>
                        Len(At(WalkerWarnings, pr[1], "references.unknown")) = 1
             /\ \A i \in 1..Len(ShellsOf(Doc)) :
                  LET ref_id == _extract_reference_id(Get(ShellsOf(Doc)[i], "derivedFrom"))
                  IN  (Truthy(ref_id) /\ ref_id \notin IdentifierIndex(Doc)) =>
                        Len(At(WalkerWarnings, DerivedFromPath(i), "references.external")) = 1
        /\ \A k \in 1..Len(WalkerErrors) :
             \/ /\ WalkerErrors[k].rule = "references.broken"
                /\ \E ij \in ShellRefs(Doc) : WalkerErrors[k].path = ShellRefPath(ij[1], ij[2])
             \/ /\ WalkerErrors[k].rule = "validation.exception"
                /\ k = Len(WalkerErrors)

\* a RelationshipElement nested in a collection has two dangling references
\* and both are reported as warnings; the report stays valid
C3_Witness ==
    /\ ViaValidate
    /\ ~Aborted
    /\ \E pe \in AllElements(Doc) :
         /\ Get(pe[2], "modelType") = JStr("RelationshipElement")
         /\ \E k \in 1..(Len(pe[1]) - 7) : SubSeq(pe[1], k, k + 6) = "/value/"
         /\ \A pr \in CheckedRefs(pe) :
              /\ _extract_reference_id(pr[2]) = JStr("X")
              /\ At(Report.warnings, pr[1], "references.unknown") # <<>>
    /\ Report.valid

SubmodelPath(i) == "/submodels/" \o ToString(i - 1)

\* the warnings of seq that report a missing semanticId at path
SemanticWarnings(seq, path) ==
    SelectSeq(seq, LAMBDA d : /\ d.path = path
                              /\ d.rule = "semantics.semantic_id"
                              /\ d.severity = "warning"
                              /\ SubstringOf("semanticId", d.message))

\* C4 as stated: every submodel without a semanticId field has exactly one
\* semantics.semantic_id warning at /submodels/{i} whose message contains
\* "semanticId"; a submodel with the field has none.
C4_Original ==
    ViaValidate =>
        \A i \in 1..Len(SubmodelsOf(Doc)) :
            IsDict(SubmodelsOf(Doc)[i]) =>
                Len(SemanticWarnings(Report.warnings, SubmodelPath(i)))
                    = IF HasKey(SubmodelsOf(Doc)[i], "semanticId") THEN 0 ELSE 1

\* C4 amended: in every report of validate that holds no
\* validation.exception error (no step of the pipeline raised), every
\* submodel without a semanticId field has exactly one semantics.semantic_id
\* warning at /submodels/{i} whose message contains "semanticId", and a
\* submodel with the field has none; when validate aborted the walkers add
\* no such warning for a submodel that has the field.
C4_MissingSemanticId ==
    ViaValidate =>
        \A i \in 1..Len(SubmodelsOf(Doc)) :
            IsDict(SubmodelsOf(Doc)[i]) =>
                LET n == Len(SemanticWarnings(WalkerWarnings, SubmodelPath(i)))
                    m == Len(At(WalkerWarnings, SubmodelPath(i), "semantics.semantic_id"))
                IN  /\ n = m
                    /\ IF HasKey(SubmodelsOf(Doc)[i], "semanticId") THEN n = 0
                       ELSE IF Aborted THEN n <= 1 ELSE n = 1

\* the second of two submodels lacks semanticId, the first has it: one
\* warning, at /submodels/1
C4_Witness ==
    /\ ViaValidate
    /\ ~Aborted
    /\ Len(SubmodelsOf(Doc)) = 2
    /\ IsDict(SubmodelsOf(Doc)[1]) /\ HasKey(SubmodelsOf(Doc)[1], "semanticId")
    /\ IsDict(SubmodelsOf(Doc)[2]) /\ ~HasKey(SubmodelsOf(Doc)[2], "semanticId")
    /\ Len(SemanticWarnings(Report.warnings, "/submodels/1")) = 1
    /\ Len(WithRule(Report.warnings, "semantics.semantic_id")) = 1

\* the structural walker ran: the options lookup and the checker did not
\* raise, the compliance query did not raise, and the document supports the
\* membership test
StructureRan ==
    /\ NormalizerRan
    /\ call.checker.result.ok # "raise"
    /\ Doc.t \in {"dict", "list", "str"}

\* the number of the two required top-level fields a mapping lacks
MissingTopLevel(d) ==
    Cardinality({key \in {"assetAdministrationShells", "submodels"} : ~HasKey(d, key)})

\* C5 as stated: for every document the report holds one schema.structure
\* warning at / per missing top-level field (assetAdministrationShells,
\* submodels), and no schema.structure error.
C5_Original ==
    (ViaValidate /\ IsDict(Doc)) =>
        /\ Len(At(Report.warnings, "/", "schema.structure")) = MissingTopLevel(Doc)
        /\ WithRule(Report.errors, "schema.structure") = <<>>

\* C5 amended: for every document that is a mapping, unless validate aborted
\* before the structural walker ran (the options lookup, the external
\* checker or the compliance query raised), the report holds one
\* schema.structure warning at / per missing top-level field
\* (assetAdministrationShells, submodels): zero, one or two; the walkers
\* never report a missing field as an error, and a document with neither
\* field gets no error from the walkers at all.
C5_StructureWarnings ==
    (ViaValidate /\ IsDict(Doc)) =>
        /\ Len(At(WalkerWarnings, "/", "schema.structure"))
             = IF StructureRan THEN MissingTopLevel(Doc) ELSE 0
        /\ Len(WithRule(WalkerWarnings, "schema.structure"))
             = Len(At(WalkerWarnings, "/", "schema.structure"))
        /\ WithRule(WalkerErrors, "schema.structure") = <<>>
        /\ (StructureRan /\ MissingTopLevel(Doc) = 2
              /\ ListOf(Doc, "conceptDescriptions") = <<>>
              /\ (HasKey(Doc, "conceptDescriptions") => IsList(Item(Doc, "conceptDescriptions"))))
             => WalkerErrors = <<>>

\* a document without assetAdministrationShells but with submodels: one
\* warning; and the report is valid
C5_Witness ==
    /\ ViaValidate
    /\ IsDict(Doc)
    /\ ~HasKey(Doc, "assetAdministrationShells")
    /\ HasKey(Doc, "submodels")
    /\ Len(At(Report.warnings, "/", "schema.structure")) = 1
    /\ Report.warnings[1].message = "Missing assetAdministrationShells array"
    /\ Report.valid

JsonBytesCall == Done /\ call.op = "validate_json_bytes"

\* the report of malformed JSON (lines 153-167)
IsJsonErrorReport(r) ==
    /\ ~r.valid
    /\ Len(r.errors) = 1
    /\ r.errors[1].rule = "schema.json"
    /\ r.errors[1].path = "/"
    /\ r.errors[1].severity = "error"
    /\ r.warnings = <<>>
    /\ r.info = <<>>
    /\ r.duration_ms = "0"

\* C7 as stated: for bytes that are no decodable JSON document,
\* validate_json_bytes returns the schema.json report without raising.
C7_Original ==
    (JsonBytesCall /\ ~(call.content.utf8 /\ call.content.json)) =>
        /\ outcome.kind = "report"
        /\ IsJsonErrorReport(Report)

\* C7 amended: for bytes that decode as UTF-8 but are no JSON text,
\* validate_json_bytes returns, whatever the checker would do, a report with
\* valid = FALSE, exactly one error (rule schema.json), empty warnings and
\* info and duration_ms = 0; bytes that are not UTF-8 make it raise
\* UnicodeDecodeError; every decodable input is delegated to validate (with
\* no options).
C7_MalformedJson ==
    JsonBytesCall =>
        IF ~call.content.utf8 THEN outcome = Raised("UnicodeDecodeError")
        ELSE IF ~call.content.json
        THEN outcome.kind = "report" /\ IsJsonErrorReport(Report)
        ELSE /\ outcome = validate(call.content.value, JNull, call.checker)
             /\ outcome.kind = "report"
             /\ Report.duration_ms = "elapsed"
             /\ WithRule(Report.errors, "schema.json") = <<>>

\* malformed JSON text with a checker that would raise: the checker is not
\* asked
C7_Witness ==
    /\ JsonBytesCall
    /\ call.content.utf8 /\ ~call.content.json
    /\ call.checker.exc # NoExc
    /\ outcome.kind = "report"
    /\ Report.errors[1].rule = "schema.json"

\* the call normalized the result of the external checker
NormalizerCall ==
    /\ HasReport
    /\ call.op \in {"validate", "validate_aasx", "validate_json_bytes"}
    /\ call.op = "validate_json_bytes" => call.content.utf8 /\ call.content.json
    /\ call.op # "validate_aasx" => OptionsUsable
    /\ call.checker.exc = NoExc

ComplianceInfo ==
    ValidationError("/", "AAS structure is compliant with metamodel specification",
                    "info", "aas-test-engines.compliance")

WalkerRules ==
    {"schema.structure", "references.broken", "references.external",
     "references.unknown", "semantics.semantic_id", "validation.exception"}

\* C8: for a compliant checker result the normalizer emits exactly one info
\* diagnostic (aas-test-engines.compliance at /) and nothing else, whatever
\* issues or dump the result carries: validate_aasx then returns no error
\* and no warning, and validate only the walkers' diagnostics; no report
\* ever holds another info diagnostic.
C8_CompliantOneInfo ==
    HasReport =>
        /\ Report.info \in {<<>>, <<ComplianceInfo>>}
        /\ Report.info = <<ComplianceInfo>>
             <=> (NormalizerCall /\ call.checker.result.ok = "true")
        /\ (NormalizerCall /\ call.checker.result.ok = "true") =>
             /\ call.op = "validate_aasx" => Report.errors = <<>> /\ Report.warnings = <<>>
             /\ \A k \in 1..Len(Report.errors) : Report.errors[k].rule \in WalkerRules
             /\ \A k \in 1..Len(Report.warnings) : Report.warnings[k].rule \in WalkerRules

\* a compliant result that carries an issue: the issue is not read
C8_Witness ==
    /\ NormalizerCall
    /\ call.op = "validate_aasx"
    /\ call.checker.result.ok = "true"
    /\ call.checker.result._issues.st = "value"
    /\ Report.info = <<ComplianceInfo>>
    /\ Report.valid

\* the normalizer read an issue collection of a non-compliant result
CollectionRead ==
    /\ NormalizerCall
    /\ call.checker.result.ok = "false"
    /\ \/ call.checker.result._issues.st = "value"
       \/ call.checker.result._issues.st = "absent" /\ call.checker.result.issues.st = "value"

ReadCollection ==
    IF call.checker.result._issues.st = "value" THEN call.checker.result._issues.val
    ELSE call.checker.result.issues.val

\* the issues of a collection in the order they are coerced
RECURSIVE FlatPairs(_, _)
FlatPairs(pairs, k) ==
    IF k > Len(pairs) THEN <<>>
    ELSE (IF IsList(pairs[k][2]) THEN pairs[k][2].v ELSE <<pairs[k][2]>>)
         \o FlatPairs(pairs, k + 1)

FlatIssues(c) ==
    IF IsList(c) THEN c.v ELSE IF IsDict(c) THEN FlatPairs(c.v, 1) ELSE <<>>

\* the severity value an issue supplies; "error" when it supplies none
SeverityOfIssue(issue) ==
    IF IsDict(issue) /\ HasKey(issue, "severity") THEN Item(issue, "severity")
    ELSE JStr("error")

\* an issue no diagnostic can be built from: a field of the wrong type
Uncoercible(issue) ==
    /\ IsDict(issue)
    /\ \/ HasKey(issue, "message") /\ ~IsStr(Item(issue, "message"))
       \/ HasKey(issue, "severity") /\ ~IsStr(Item(issue, "severity"))
       \/ HasKey(issue, "rule") /\ Item(issue, "rule").t \notin {"str", "null"}

\* the issues coerced before the first uncoercible one
Coerced(issues) ==
    LET bad == {k \in 1..Len(issues) : Uncoercible(issues[k])}
    IN  IF bad = {} THEN issues
        ELSE SubSeq(issues, 1, (CHOOSE k \in bad : \A m \in bad : k <= m) - 1)

SeveritiesOf(issues) == [k \in 1..Len(issues) |-> SeverityOfIssue(issues[k]).v]

GenericFailure ==
    ValidationError("/", "AAS validation failed (see aas-test-engines output)",
                    "error", "aas-test-engines.validation")

\* C9: the normalizer puts a coerced issue into the warnings bucket exactly
\* when its severity value is "warning"; every other issue (a plain string,
\* a mapping with no, "error", "info" or an unrecognized severity, any other
\* object) goes to the errors bucket, so a collection with such an issue
\* makes the report not valid.
C9_FailClosedRouting ==
    CollectionRead =>
        LET all == FlatIssues(ReadCollection)
            done == Coerced(all)
            toWarnings == SelectSeq(done, LAMBDA i : SeverityOfIssue(i) = JStr("warning"))
            toErrors == SelectSeq(done, LAMBDA i : SeverityOfIssue(i) # JStr("warning"))
            failure == IF Len(done) < Len(all) THEN <<GenericFailure>> ELSE <<>>
            nE == Len(toErrors) + Len(failure)
            nW == Len(toWarnings)
        IN  /\ Len(Report.errors) >= nE /\ Len(Report.warnings) >= nW
            /\ [k \in 1..Len(toErrors) |-> Report.errors[k].severity] = SeveritiesOf(toErrors)
            /\ SubSeq(Report.errors, Len(toErrors) + 1, nE) = failure
            /\ \A k \in 1..nW : Report.warnings[k].severity = "warning"
            /\ call.op = "validate_aasx" =>
                 Len(Report.errors) = nE /\ Len(Report.warnings) = nW
            /\ (\E k \in 1..Len(all) : SeverityOfIssue(all[k]) # JStr("warning"))
                 => ~Report.valid

\* a warning issue and an issue of severity "info": one in each bucket
C9_Witness ==
    /\ CollectionRead
    /\ call.op = "validate_aasx"
    /\ Len(Report.warnings) = 1
    /\ Len(Report.errors) = 1
    /\ Report.errors[1].severity = "info"
    /\ ~Report.valid

\* C10: the normalizer never propagates an exception to its caller,
\* whatever the checker result does when queried: after validate_aasx got a
\* result from the checker, its report holds no validation.exception error.
C10_NormalizerNeverPropagates ==
    (NormalizerCall /\ call.op = "validate_aasx") =>
        /\ _parse_aas_test_result(call.checker.result, EmptyBuckets).exc = NoExc
        /\ WithRule(Report.errors, "validation.exception") = <<>>
\* the target of a reference is given and not in the identifier index of d
MissingTarget(reference, d) ==
    LET ref_id == _extract_reference_id(reference)
    IN  ref_id # JNull /\ ref_id \notin IdentifierIndex(d)

\* the same for a target that is not empty (truthy)
DanglingTarget(reference, d) ==
    LET ref_id == _extract_reference_id(reference)
    IN  Truthy(ref_id) /\ ref_id \notin IdentifierIndex(d)

\* d has both top-level fields, and every submodel carries a semanticId
NoGaps(d) ==
    /\ IsDict(d)
    /\ MissingTopLevel(d) = 0
    /\ \A i \in 1..Len(SubmodelsOf(d)) :
         IsDict(SubmodelsOf(d)[i]) /\ HasKey(SubmodelsOf(d)[i], "semanticId")

\* C13 as stated: for a document with both top-level fields, no shell
\* submodel reference whose target is missing from the identifier index and
\* a semanticId on every submodel, the walkers add no warning and no error.
C13_Original ==
    (/\ ViaValidate
     /\ StructureRan
     /\ NoGaps(Doc)
     /\ \A ij \in ShellRefs(Doc) : ~MissingTarget(ShellRef(Doc, ij), Doc))
        => WalkerErrors = <<>> /\ WalkerWarnings = <<>>

\* C13 amended: for a document on which no walker raises (the report holds
\* no validation.exception error), that has both top-level fields and a
\* semanticId on every submodel, and in which no shell submodel reference,
\* no derivedFrom of a shell and no ReferenceElement / RelationshipElement
\* reference at any depth has a non-empty target missing from the
\* identifier index, the walkers add no warning and no error: the report
\* holds the normalizer's diagnostics only.
C13_CleanDocument ==
    (/\ ViaValidate
     /\ ~Aborted
     /\ NoGaps(Doc)
     /\ \A ij \in ShellRefs(Doc) : ~DanglingTarget(ShellRef(Doc, ij), Doc)
     /\ \A i \in 1..Len(ShellsOf(Doc)) :
          ~DanglingTarget(Get(ShellsOf(Doc)[i], "derivedFrom"), Doc)
     /\ \A pe \in AllElements(Doc) : \A pr \in CheckedRefs(pe) :
          ~DanglingTarget(pr[2], Doc))
        => /\ WalkerErrors = <<>> /\ WalkerWarnings = <<>>
           /\ Report.errors = Normalized.errors
           /\ Report.warnings = Normalized.warnings

\* a document whose shell refers to its submodel and whose submodel holds a
\* ReferenceElement that resolves: no warning and no error
C13_Witness ==
    /\ ViaValidate
    /\ ~Aborted
    /\ NoGaps(Doc)
    /\ ShellRefs(Doc) # {}
    /\ \A ij \in ShellRefs(Doc) : _extract_reference_id(ShellRef(Doc, ij)) = JStr("S1")
    /\ \E pe \in AllElements(Doc) :
         /\ Get(pe[2], "modelType") = JStr("ReferenceElement")
         /\ _extract_reference_id(Get(pe[2], "value")) = JStr("S1")
    /\ \A pe \in AllElements(Doc) : \A pr \in CheckedRefs(pe) : ~DanglingTarget(pr[2], Doc)
    /\ JStr("S1") \in IdentifierIndex(Doc)
    /\ Report.errors = <<>> /\ Report.warnings = <<>>
    /\ Report.info = <<ComplianceInfo>>

\* p is a prefix of q
IsPrefix(p, q) == Len(p) <= Len(q) /\ SubSeq(q, 1, Len(p)) = p

\* the concatenation of a sequence of sequences
RECURSIVE Flatten(_)
Flatten(seqs) == IF seqs = <<>> THEN <<>> ELSE Head(seqs) \o Flatten(Tail(seqs))

\* the elements of an element list in the order of the document, a
\* collection's or list's nested elements right after it: <<path, element>>
RECURSIVE ElementSeq(_, _)
ElementSeq(elements, base_path) ==
    Flatten([k \in 1..Len(elements) |->
        LET e == elements[k]
            path == base_path \o "/" \o ToString(k - 1)
        IN  IF ~IsDict(e) THEN <<>>
            ELSE <<<<path, e>>>> \o
                 (IF IsContainer(e) /\ IsList(Get(e, "value"))
                  THEN ElementSeq(Get(e, "value").v, path \o "/value")
                  ELSE <<>>)])

\* the references of an element in the order they are checked
CheckedRefSeq(pe) ==
    IF Get(pe[2], "modelType") = JStr("ReferenceElement")
    THEN <<<<pe[1], Get(pe[2], "value")>>>>
    ELSE IF Get(pe[2], "modelType") = JStr("RelationshipElement")
    THEN <<<<pe[1] \o "/first", Get(pe[2], "first")>>,
           <<pe[1] \o "/second", Get(pe[2], "second")>>>>
    ELSE <<>>

\* <<rule, path>> of every diagnostic of seq, in order
RulePaths(seq) == [k \in 1..Len(seq) |-> <<seq[k].rule, seq[k].path>>]

\* what the walkers have to report about document d, from the document
\* alone and in the order of the sources: the errors ...
ExpectedErrors(d) ==
    Flatten([i \in 1..Len(ShellsOf(d)) |->
        LET refs == ListOf(ShellsOf(d)[i], "submodels")
        IN  Flatten([j \in 1..Len(refs) |->
                IF DanglingTarget(refs[j], d)
                THEN <<<<"references.broken", ShellRefPath(i, j)>>>> ELSE <<>>])])

\* ... and the warnings: structure, references of the shells, references of
\* the submodels' elements, semantics
ExpectedWarnings(d) ==
    [k \in 1..(IF IsDict(d) THEN MissingTopLevel(d) ELSE 2) |-> <<"schema.structure", "/">>]
    \o Flatten([i \in 1..Len(ShellsOf(d)) |->
         IF /\ IsDict(ShellsOf(d)[i])
            /\ DanglingTarget(Get(ShellsOf(d)[i], "derivedFrom"), d)
         THEN <<<<"references.external", DerivedFromPath(i)>>>> ELSE <<>>])
    \o Flatten([i \in 1..Len(SubmodelsOf(d)) |->
         LET elems == ElementSeq(ListOf(SubmodelsOf(d)[i], "submodelElements"),
                        "/submodels/" \o ToString(i - 1) \o "/submodelElements")
             refs == Flatten([k \in 1..Len(elems) |-> CheckedRefSeq(elems[k])])
         IN  Flatten([k \in 1..Len(refs) |->
                 IF DanglingTarget(refs[k][2], d)
                 THEN <<<<"references.unknown", refs[k][1]>>>> ELSE <<>>])])
    \o Flatten([i \in 1..Len(SubmodelsOf(d)) |->
         IF PyIn("semanticId", SubmodelsOf(d)[i]) = "F"
         THEN <<<<"semantics.semantic_id", SubmodelPath(i)>>>> ELSE <<>>])

\* C14: in every bucket of a report of validate the diagnostics are in the
\* order of their sources: first the normalizer's, in the order it made
\* them, then the structural walker's, then the reference walker's (the
\* shells' in document order, then the submodels' elements' in document
\* order), then the semantic walker's; a call that aborted holds the
\* diagnostics made up to there, followed in errors by the
\* validation.exception error.
C14_SourceOrder ==
    ViaValidate =>
        /\ SubSeq(Report.errors, 1, Len(Normalized.errors)) = Normalized.errors
        /\ SubSeq(Report.warnings, 1, Len(Normalized.warnings)) = Normalized.warnings
        /\ Report.info = Normalized.info
        /\ IF Aborted
           THEN /\ IsPrefix(RulePaths(SubSeq(WalkerErrors, 1, Len(WalkerErrors) - 1)),
                            ExpectedErrors(Doc))
                /\ WalkerErrors[Len(WalkerErrors)].rule = "validation.exception"
                /\ IsPrefix(RulePaths(WalkerWarnings), ExpectedWarnings(Doc))
           ELSE /\ RulePaths(WalkerErrors) = ExpectedErrors(Doc)
                /\ RulePaths(WalkerWarnings) = ExpectedWarnings(Doc)

\* a report with a warning of the normalizer, of the reference walker for a
\* shell, of the reference walker for an element and of the semantic
\* walker, in that order
C14_Witness ==
    /\ ViaValidate
    /\ ~Aborted
    /\ Len(Normalized.warnings) = 1
    /\ [k \in 1..Len(Report.warnings) |-> Report.warnings[k].rule]
         = <<"aas-test-engines", "references.external", "references.unknown",
             "semantics.semantic_id">>
    /\ Len(Report.errors) = 1
    /\ Report.errors[1].rule = "references.broken"

\* the paths at which the element check has to warn: the dangling references
\* (to a target that can be looked up in the index) of the elements reached
\* from the submodels' submodelElements by descending into the value list
\* of collections and lists only
UnknownPaths(d) ==
    {pr[1] : pr \in {qr \in UNION {CheckedRefs(pe) : pe \in AllElements(d)} :
                       /\ DanglingTarget(qr[2], d)
                       /\ Hashable(_extract_reference_id(qr[2]))}}

\* the paths of the references.unknown warnings of the walkers
WarnedPaths == {WalkerWarnings[k].path :
                  k \in {n \in 1..Len(WalkerWarnings) :
                           WalkerWarnings[n].rule = "references.unknown"}}

\* validate got as far as the element check: nothing raised before
\* _check_references_in_submodels
ElementCheckReached ==
    /\ StructureRan
    /\ IsDict(Doc)
    /\ valid_ids(Doc).exc = NoExc
    /\ _check_references_in_aas(Doc, valid_ids(Doc).ids, EmptyBuckets).exc = NoExc

ResolverCall == Done /\ call.op = "_extract_reference_id"

\* the keys of a reference that is a mapping with a non-empty keys sequence
KeysOf(reference) ==
    IF IsDict(reference) /\ HasKey(reference, "keys") /\ IsList(Item(reference, "keys"))
    THEN Item(reference, "keys").v ELSE <<>>

\* C16: _extract_reference_id returns, for a mapping whose keys field is a
\* non-empty sequence whose last element is a mapping, that last element's
\* value field (None if it has none), whatever the earlier keys are; for
\* every other shape (null, string, scalar, list, mapping without keys,
\* keys empty or no sequence, last key no mapping) it returns None; it
\* returns for every input and never raises.
C16_ResolverTotal ==
    ResolverCall =>
        /\ outcome.kind = "value"
        /\ LET keys == KeysOf(call.reference)
           IN  IF keys # <<>> /\ IsDict(keys[Len(keys)])
               THEN outcome.value = IF HasKey(keys[Len(keys)], "value")
                                    THEN Item(keys[Len(keys)], "value") ELSE JNull
               ELSE outcome.value = JNull

\* a reference with three keys, the last a mapping with value S1 after two
\* keys of other shapes: the target is S1
C16_Witness ==
    /\ ResolverCall
    /\ Len(KeysOf(call.reference)) = 3
    /\ KeysOf(call.reference)[1] = Key(JStr("X"))
    /\ ~IsDict(KeysOf(call.reference)[2])
    /\ outcome = [kind |-> "value", value |-> JStr("S1")]

\* validate_aasx returned the normalizer's diagnostics for a non-compliant
\* result, and nothing else
NonCompliantOnly ==
    /\ NormalizerCall
    /\ call.op = "validate_aasx"
    /\ call.checker.result.ok = "false"

\* the report holds what collection c yields, and nothing of another source
OnlyFrom(c) ==
    LET all == FlatIssues(c)
        done == Coerced(all)
        toErrors == SelectSeq(done, LAMBDA i : SeverityOfIssue(i) # JStr("warning"))
        toWarnings == SelectSeq(done, LAMBDA i : SeverityOfIssue(i) = JStr("warning"))
        failure == IF Len(done) < Len(all) THEN <<GenericFailure>> ELSE <<>>
    IN  /\ Len(Report.errors) = Len(toErrors) + Len(failure)
        /\ SubSeq(Report.errors, Len(toErrors) + 1, Len(Report.errors)) = failure
        /\ Len(Report.warnings) = Len(toWarnings)
        /\ \A k \in 1..Len(Report.errors) :
             ~StartsWith(Report.errors[k].message, "AAS validation failed: ")

\* the diagnostic of the dump fallback for dump string s
DumpDiagnostic(s) ==
    ValidationError("/",
        "AAS validation failed: "
          \o SubSeq(s, 1, IF Len(s) < DumpLimit THEN Len(s) ELSE DumpLimit),
        "error", "aas-test-engines.validation")

\* C17: for a non-compliant result the normalizer uses exactly one issue
\* source: _issues if the result has it, else issues if the result has it,
\* and only when it has neither the dump string, from which it emits a
\* single error diagnostic with rule aas-test-engines.validation at path /
\* whose message carries at most the first 500 characters of the dump.
C17_SourcePriority ==
    NonCompliantOnly =>
        LET result == call.checker.result
        IN  /\ result._issues.st = "value" => OnlyFrom(result._issues.val)
            /\ (result._issues.st = "absent" /\ result.issues.st = "value")
                 => OnlyFrom(result.issues.val)
            /\ (/\ result._issues.st = "absent"
                /\ result.issues.st = "absent"
                /\ result.dump.st = "value"
                /\ IsStr(result.dump.val))
                 => /\ Report.errors = <<DumpDiagnostic(result.dump.val.v)>>
                    /\ Report.warnings = <<>>

\* C18: whenever the external checker reports non-compliance, the report is
\* not valid: its errors bucket holds at least one diagnostic, whatever the
\* issue collection and the dump of the result are.
C18_NonCompliantInvalid ==
    (NormalizerCall /\ call.checker.result.ok = "false") =>
        /\ Report.errors # <<>>
        /\ ~Report.valid

\* C19: in every report the severity of a diagnostic names the bucket that
\* holds it: "error" in errors, "warning" in warnings, "info" in info,
\* diagnostics coerced from checker issues with their own severity included.
C19_SeverityMatchesBucket ==
    HasReport =>
        /\ \A k \in 1..Len(Report.errors) : Report.errors[k].severity = "error"
        /\ \A k \in 1..Len(Report.warnings) : Report.warnings[k].severity = "warning"
        /\ \A k \in 1..Len(Report.info) : Report.info[k].severity = "info"

-----------------------------------------------------------------------------
(* Properties of the service process (ServiceSpec) *)

\* request r constructs an AasValidator in this step: it starts validate_json
\* or resumes validate_file after the read
ConstructsValidator(r) ==
    \/ requests[r].pc = "idle" /\ requests'[r].call.op = "validate_json"
    \/ requests[r].pc = "reading" /\ requests'[r].pc = "done"

\* request r is a readiness probe handled in this step
Probes(r) == requests[r].pc = "idle" /\ requests'[r].call.op = "readiness_check"

\* C11 as stated: the version query of the external checker runs at most
\* once in the life of the process, whatever validation calls and readiness
\* probes are made.
C11_Original == version_queries <= 1

\* C11 amended: the readiness probe computes the checker's supported/latest
\* version list at most once per process lifetime: the version query runs
\* on the first probe, its outcome (the versions, or the failure) is cached,
\* and every later probe returns the cached status without running the
\* query; the cached status never changes.  Validation calls do not use the
\* cache: every /validate/json and /validate/file request that constructs a
\* validator runs the version query again, and nothing else runs it.
C11_ProbeQueriesOnce ==
    [][/\ _aas_test_engines_status # None
            => _aas_test_engines_status' = _aas_test_engines_status
       /\ version_queries' = version_queries
            + Cardinality({r \in Requests : ConstructsValidator(r)})
            + (IF _aas_test_engines_status = None /\ _aas_test_engines_status' # None
               THEN 1 ELSE 0)
       /\ \A r \in Requests :
            Probes(r) =>
              /\ _aas_test_engines_status' # None
              /\ requests'[r].outcome.validators = _aas_test_engines_status'
              /\ _aas_test_engines_status # None => version_queries' = version_queries
      ]_vars

\* two probes are answered from one version query: the second returned the
\* cached status
C11_Witness ==
    /\ \A r \in {1, 2} :
         /\ requests[r].pc = "done"
         /\ requests[r].call.op = "readiness_check"
         /\ requests[r].outcome.validators = _aas_test_engines_status
    /\ _aas_test_engines_status # None
    /\ _aas_test_engines_status.available
    /\ version_queries = 1

\* a validate call that is running or over (its validator was constructed)
ValidateCall(r) ==
    /\ requests[r].call.op = "validate_json"
    /\ requests[r].outcome.kind # "raised"

InFlight(r) ==
    requests[r].pc \in {"check", "structure", "references", "semantics", "report"}

\* what the call of request r produces when it runs alone: the lists of the
\* try block, and the report
AloneLists(r) ==
    ValidateBody(requests[r].call.environment, requests[r].call.options,
                 requests[r].call.checker)

AloneReport(r) ==
    validate(requests[r].call.environment, requests[r].call.options,
             requests[r].call.checker)

\* C12: whatever other requests run at the same time, and however their
\* stages interleave, the report of every validate call equals the report
\* the same call produces when run alone (errors, warnings, info, valid),
\* and while the call runs its lists hold only diagnostics of that report,
\* in order.
C12_ConcurrentIndependent ==
    \A r \in Requests :
        ValidateCall(r) =>
            /\ requests[r].pc = "done" => requests[r].outcome = AloneReport(r)
            /\ InFlight(r) =>
                 /\ IsPrefix(requests[r].b.errors, AloneLists(r).errors)
                 /\ IsPrefix(requests[r].b.warnings, AloneLists(r).warnings)
                 /\ IsPrefix(requests[r].b.info, AloneLists(r).info)
                 /\ requests[r].b.exc \in {NoExc, AloneLists(r).exc}

\* two validate calls on different documents at once: the first is between
\* two walkers with diagnostics in its lists, the second has its report
C12_Witness ==
    /\ ValidateCall(1) /\ ValidateCall(2)
    /\ requests[1].call.environment # requests[2].call.environment
    /\ requests[1].pc = "semantics"
    /\ Len(requests[1].b.errors) > 0
    /\ requests[2].pc = "done"
    /\ requests[2].outcome.kind = "report"
    /\ Len(requests[2].outcome.report.errors) > 0
    /\ requests[2].outcome.report.errors # requests[1].b.errors
====
